---- MODULE Spec2Model ----
(***************************************************************************)
(* Park Puls (app.py and testapp.py): a Streamlit script that is re-run    *)
(* from top to bottom on every user interaction.  A session keeps the      *)
(* widget states and st.session_state between reruns; feedback.db keeps    *)
(* the park_feedback table.                                                *)
(*                                                                         *)
(* Geometry is one-dimensional: a click is a point on a line and the       *)
(* polygon of layer row k covers the points k and k+1, so neighbouring     *)
(* parks overlap in one point and the last point lies in no park.          *)
(* The timestamp column (datetime.utcnow()) is not modelled.               *)
(*                                                                         *)
(* A rerun runs to its end before the session's next interaction is        *)
(* taken; an interaction is possible on a widget the last run rendered.    *)
(***************************************************************************)
EXTENDS Integers, Sequences, FiniteSets, TLC

\* ---------------------------------------------------------------- bounds
NumParks == 2
MaxRows == 1         \* rows of a feedback.db that one session writes
MaxSharedRows == 2   \* rows of a feedback.db that two sessions write

\* ------------------------------------------------------- program constants
SliderMin == 1
SliderMax == 5
SliderDefault == 3

None == -1      \* Python's None, where the other values are integers >= 0
Absent == -2    \* a key that st.session_state does not hold yet
Unknown == <<"Unknown">>

Scripts == {"app", "testapp"}
Sessions == {1, 2}
DbFiles == {1, 2}
Comments == {"", "nice"}

\* ------------------------------------------------------------------ data
\* The value of column c in layer row k.
Val(c, k) == <<c, k>>

Columns == {"NAMN_top5", "TYP_combined", "typology", "BIOTOP_combined", "amenities"}

\* load_layer: rows 0..NumParks-1 (a RangeIndex), the attribute columns and
\* the geometry.
layer_variables ==
    [k \in 0..(NumParks - 1) |->
        [c \in Columns \cup {"geometry"} |->
            IF c = "geometry" THEN {k, k + 1} ELSE Val(c, k)]]

\* The places a user can click.
Points == 0..(NumParks + 1)

\* themes with testapp.py's "Environment" entry lacking the name column.
themesNoName(script) ==
    [t \in {"Amenities", "Environment", "Accessibility", "Socioeconomic factors"} |->
        CASE t = "Amenities" -> <<"NAMN_top5", "TYP_combined", "typology", "amenities">>
          [] t = "Environment" ->
                IF script = "app" THEN <<"NAMN_top5", "typology">>
                                  ELSE <<"BIOTOP_combined">>
          [] OTHER -> <<"NAMN_top5">>]

themes(script) ==
    [t \in {"Amenities", "Environment", "Accessibility", "Socioeconomic factors"} |->
        CASE t = "Amenities" -> <<"NAMN_top5", "TYP_combined", "typology", "amenities">>
          [] t = "Environment" ->
                IF script = "app" THEN <<"NAMN_top5", "typology">>
                                  ELSE <<"NAMN_top5", "BIOTOP_combined">>
          [] OTHER -> <<"NAMN_top5">>]

layer_options == {"Amenities", "Environment", "Accessibility", "Socioeconomic factors"}

Range(s) == {s[n] : n \in 1..Len(s)}

\* get_filtered_layer: the theme's columns and the geometry of every row.
get_filtered_layer(script, selected_layer) ==
    [k \in DOMAIN layer_variables |->
        [c \in Range(themes(script)[selected_layer]) \cup {"geometry"} |->
            layer_variables[k][c]]]

\* The filtered layer of every script and theme (@st.cache_data).
FilteredLayers ==
    [sc \in Scripts |-> [t \in layer_options |-> get_filtered_layer(sc, t)]]

\* A predicate that also matches the polygon next to the point.
WithinNeighbour(p, geometry) == (p + 1) \in geometry

\* Point(...).within(polygon)
Within(p, geometry) == p \in geometry

\* The layer rows a point matches, in ascending row order (the order in
\* which the join lists the matches of its one left row).
RECURSIVE Matches(_, _, _)
Matches(p, layer, k) ==
    IF k \notin DOMAIN layer THEN <<>>
    ELSE (IF Within(p, layer[k]["geometry"]) THEN <<k>> ELSE <<>>)
         \o Matches(p, layer, k + 1)

\* gpd.sjoin(clicked_point, layer, predicate="within"): an inner join that
\* keeps the left frame's index (the one clicked point has index 0) and its
\* geometry, and adds index_right and the columns of the matched row.
sjoin(p, layer) ==
    LET ks == Matches(p, layer, 0)
    IN  [n \in 1..Len(ks) |->
            [index |-> 0,
             row |-> [c \in (DOMAIN layer[ks[n]]) \cup {"index_right"} |->
                        CASE c = "geometry" -> p
                          [] c = "index_right" -> ks[n]
                          [] OTHER -> layer[ks[n]][c]]]]

\* clicked_polygon.iloc[0].to_dict()
park_info(joined) == joined[1].row

NoInfo == [c \in {} |-> 0]

\* dict.get(key, default)
Get(dict, key, default) == IF key \in DOMAIN dict THEN dict[key] ELSE default

\* layer.iloc[[i]]: the geometry of the row at position i.
iloc(layer, i) == layer[i]["geometry"]

\* -------------------------------------------------------------- database
\* feedback.db before the first run: no table.
NewDb == [exists |-> FALSE, rows |-> <<>>, seq |-> 0, lock |-> 0]

\* A table that is created anew on every run.
CreateTable(d) == [d EXCEPT !.exists = TRUE, !.rows = <<>>, !.seq = 0]

\* CREATE TABLE IF NOT EXISTS park_feedback (...); conn.commit()
CreateTableIfNotExists(d) ==
    IF d.exists THEN d ELSE [d EXCEPT !.exists = TRUE, !.rows = <<>>, !.seq = 0]

\* c.execute("INSERT INTO park_feedback ..."): opens the write transaction
\* of the run's own connection; id is the AUTOINCREMENT key.
InsertRow(d, park_name, rating, comment) ==
    [id |-> d.seq + 1, park_name |-> park_name, rating |-> rating, comment |-> comment]

\* conn.commit(): the pending row becomes part of the table.
Commit(d, row) ==
    [d EXCEPT !.rows = Append(@, row),
              !.seq = IF row.id > @ THEN row.id ELSE @,
              !.lock = 0]

\* --------------------------------------------------------------- session
\* A browser session before its first script run.
NewSession(script, dbfile) ==
    [script |-> script, dbfile |-> dbfile,
     selected_layer |-> "Amenities",        \* st.selectbox: the first option
     last_object_clicked |-> None,          \* st_folium(..., key="map")
     feedback |-> SliderDefault,            \* st.sidebar.slider(value=3)
     comment |-> "",                        \* st.text_area
     clicked_park_index |-> Absent,         \* st.session_state
     trigger |-> "none", pc |-> "idle",
     highlight |-> {}, info |-> NoInfo,
     details |-> FALSE, warning |-> FALSE, form |-> FALSE, success |-> FALSE,
     pending |-> <<>>,                      \* the INSERT not yet committed
     resolved_click |-> None]               \* history: the last click in a park

\* The user interaction that starts a rerun.
StartRun(s, trigger) == [s EXCEPT !.trigger = trigger, !.pc = "top"]

\* The script's run has ended: the state of a widget that was not rendered
\* in the run is dropped.
EndRun(s) ==
    [s EXCEPT !.pc = "idle", !.trigger = "done",
              !.feedback = IF s.form THEN @ ELSE SliderDefault,
              !.comment = IF s.form THEN @ ELSE ""]

submitted(s) == s.trigger = "submit"

\* gpd.sjoin of every click point with every filtered layer.
Joins ==
    [sc \in Scripts |-> [t \in layer_options |-> [p \in Points |->
        sjoin(p, FilteredLayers[sc][t])]]]

joined(s) == Joins[s.script][s.selected_layer][s.last_object_clicked]

\* Lines 12-92: title, load_layer, selectbox, get_filtered_layer, the
\* session-state default, sqlite3.connect and CREATE TABLE IF NOT EXISTS.
StepTop(P) ==
    [s |-> [P.s EXCEPT !.pc = "map",
                       !.clicked_park_index = IF @ = Absent THEN None ELSE @,
                       !.highlight = {}, !.info = NoInfo, !.details = FALSE,
                       !.warning = FALSE, !.form = FALSE, !.success = FALSE],
     d |-> CreateTableIfNotExists(P.d)]

\* folium.Map, the theme's GeoJson layer, the red highlight of row
\* clicked_park_index, the basemap, st_folium.
StepMap(P) ==
    [s |-> [P.s EXCEPT !.pc = "click",
                       !.highlight =
                           IF P.s.clicked_park_index # None
                           THEN iloc(FilteredLayers[P.s.script][P.s.selected_layer],
                                     P.s.clicked_park_index)
                           ELSE {}],
     d |-> P.d]

\* if out and out.get("last_object_clicked"):
StepClick(P) ==
    [s |-> IF P.s.last_object_clicked # None
           THEN [P.s EXCEPT !.pc = "sjoin"]
           ELSE EndRun(P.s),
     d |-> P.d]

\* A join step that forgets the clicked park when the join is empty.
StepSJoinReset(P) ==
    [s |-> IF joined(P.s) # <<>>
           THEN [P.s EXCEPT !.pc = "sidebar",
                            !.clicked_park_index = joined(P.s)[1].index,
                            !.resolved_click = P.s.last_object_clicked]
           ELSE [P.s EXCEPT !.pc = "sidebar", !.clicked_park_index = None],
     d |-> P.d]

\* gpd.sjoin and, when it is not empty, the clicked_park_index assignment.
StepSJoin(P) ==
    [s |-> IF joined(P.s) # <<>>
           THEN [P.s EXCEPT !.pc = "sidebar",
                            !.clicked_park_index = joined(P.s)[1].index,
                            !.resolved_click = P.s.last_object_clicked]
           ELSE [P.s EXCEPT !.pc = "sidebar"],
     d |-> P.d]

\* A sidebar whose form writes whether or not Submit fired.
StepSidebarAlwaysWrite(P) ==
    [s |-> IF joined(P.s) # <<>>
           THEN [P.s EXCEPT !.info = park_info(joined(P.s)),
                            !.details = TRUE, !.form = TRUE, !.pc = "write"]
           ELSE EndRun([P.s EXCEPT !.warning = (P.s.script = "app")]),
     d |-> P.d]

\* The sidebar: the park's details, the slider and the comment form, or
\* app.py's warning when the join is empty.
StepSidebar(P) ==
    [s |-> IF joined(P.s) # <<>>
           THEN LET r == [P.s EXCEPT !.info = park_info(joined(P.s)),
                                     !.details = TRUE, !.form = TRUE]
                IN  IF submitted(r) THEN [r EXCEPT !.pc = "write"] ELSE EndRun(r)
           ELSE EndRun([P.s EXCEPT !.warning = (P.s.script = "app")]),
     d |-> P.d]

\* A write that names the park by the layer row at clicked_park_index.
StepWriteByIndex(sid, P) ==
    [s |-> [P.s EXCEPT !.pc = "commit",
                       !.pending =
                           <<InsertRow(P.d,
                                       layer_variables[P.s.clicked_park_index]["NAMN_top5"],
                                       P.s.feedback, P.s.comment)>>],
     d |-> [P.d EXCEPT !.lock = sid]]

\* if submitted: park_name = park_info.get("NAMN_top5", "Unknown");
\* log_feedback's c.execute(INSERT ...)
StepWrite(sid, P) ==
    [s |-> [P.s EXCEPT !.pc = "commit",
                       !.pending = <<InsertRow(P.d, Get(P.s.info, "NAMN_top5", Unknown),
                                               P.s.feedback, P.s.comment)>>],
     d |-> [P.d EXCEPT !.lock = sid]]

\* log_feedback's conn.commit(), st.sidebar.success, and the rest of the run.
StepCommit(sid, P) ==
    [s |-> EndRun([P.s EXCEPT !.pending = <<>>, !.success = TRUE]),
     d |-> Commit(P.d, P.s.pending[1])]

\* Statements that take no notice of the write lock.
CanStepNoLock(P) == P.s.pc # "idle"

\* Whether the run's next statement can execute: a statement that writes
\* waits while another connection holds the write lock (the wait is not
\* timed: a transaction is one INSERT followed at once by its COMMIT).
CanStep(P) ==
    /\ P.s.pc # "idle"
    /\ (P.s.pc = "write") => (P.d.lock = 0)
    /\ (P.s.pc = "top" /\ ~P.d.exists) => (P.d.lock = 0)

Step(sid, P) ==
    CASE P.s.pc = "top" -> StepTop(P)
      [] P.s.pc = "map" -> StepMap(P)
      [] P.s.pc = "click" -> StepClick(P)
      [] P.s.pc = "sjoin" -> StepSJoin(P)
      [] P.s.pc = "sidebar" -> StepSidebar(P)
      [] P.s.pc = "write" -> StepWrite(sid, P)
      [] P.s.pc = "commit" -> StepCommit(sid, P)
      [] OTHER -> P

\* The script from its first line to its last.
RunScript(sid, P) ==
    Step(sid, Step(sid, Step(sid, Step(sid, Step(sid, Step(sid, Step(sid, P)))))))

\* The script up to its INSERT statement.
RunToWrite(sid, P) ==
    LET S(Q) == IF Q.s.pc \in {"write", "commit"} THEN Q ELSE Step(sid, Q)
    IN  S(S(S(S(S(P)))))

\* ----------------------------------------------------------------- state
VARIABLES sess, db

vars == <<sess, db>>

\* The session's database file, as the run of session i sees it.
View(i, s0) == [s |-> s0, d |-> db[sess[i].dbfile]]

Idle(i) == sess[i].pc = "idle"
Started(i) == sess[i].trigger # "none"

\* Submits under way on the database file of session i.
Writers(i) ==
    {j \in Sessions : sess[j].dbfile = sess[i].dbfile /\ ~Idle(j) /\ submitted(sess[j])}

RowCap(i) ==
    IF \E j \in Sessions \ {i} : sess[j].dbfile = sess[i].dbfile
    THEN MaxSharedRows ELSE MaxRows

\* What the page of session i lets its user do.
CanOpen(i) == Idle(i) /\ ~Started(i)
CanSelect(i, t) == Idle(i) /\ Started(i) /\ t # sess[i].selected_layer
CanClick(i) == Idle(i) /\ Started(i)
CanSlide(i, v) == Idle(i) /\ sess[i].form /\ v # sess[i].feedback
CanSubmit(i) ==
    /\ Idle(i) /\ sess[i].form
    /\ Len(db[sess[i].dbfile].rows) + Cardinality(Writers(i)) < RowCap(i)
CanRerun(i) == Idle(i) /\ Started(i)

\* The widget states the interaction sends with its rerun request.
Opened(i) == StartRun(sess[i], "open")
Selected(i, t) == StartRun([sess[i] EXCEPT !.selected_layer = t], "theme")
Clicked(i, p) == StartRun([sess[i] EXCEPT !.last_object_clicked = p], "click")
Slid(i, v) == StartRun([sess[i] EXCEPT !.feedback = v], "slider")
Submitted(i, c) == StartRun([sess[i] EXCEPT !.comment = c], "submit")
Rerun(i) == StartRun(sess[i], "rerun")

\* A slider that starts at 0.
SliderValuesWide == (SliderMin - 1)..SliderMax

\* st.sidebar.slider(min_value=1, max_value=5, step=1)
SliderValues == SliderMin..SliderMax

\* ------------------------------------------------- Spec: the two scripts
\* app.py (session 1) and testapp.py (session 2), each in its own directory
\* with its own feedback.db, driven by the same user: every interaction is
\* made on both pages, where the page offers it, and each script runs from
\* its first line to its last.
Init ==
    /\ sess = [i \in Sessions |-> NewSession(IF i = 1 THEN "app" ELSE "testapp", i)]
    /\ db = [f \in DbFiles |-> NewDb]

\* Both pages: the sessions in `can` rerun from their state in `start`.
Both(can, start) ==
    LET R == [i \in Sessions |->
                IF i \in can THEN RunScript(i, View(i, start[i]))
                             ELSE View(i, sess[i])]
    IN  /\ sess' = [i \in Sessions |-> R[i].s]
        /\ db' = [f \in DbFiles |-> R[f].d]

OpenPage ==
    /\ \E i \in Sessions : CanOpen(i)
    /\ Both({i \in Sessions : CanOpen(i)}, [i \in Sessions |-> Opened(i)])

SelectTheme ==
    \E t \in layer_options :
        /\ \E i \in Sessions : CanSelect(i, t)
        /\ Both({i \in Sessions : CanSelect(i, t)}, [i \in Sessions |-> Selected(i, t)])

ClickMap ==
    \E p \in Points :
        /\ \E i \in Sessions : CanClick(i)
        /\ Both({i \in Sessions : CanClick(i)}, [i \in Sessions |-> Clicked(i, p)])

MoveSlider ==
    \E v \in SliderValues :
        /\ \E i \in Sessions : CanSlide(i, v)
        /\ Both({i \in Sessions : CanSlide(i, v)}, [i \in Sessions |-> Slid(i, v)])

Submit ==
    \E c \in Comments :
        /\ \E i \in Sessions : CanSubmit(i)
        /\ Both({i \in Sessions : CanSubmit(i)}, [i \in Sessions |-> Submitted(i, c)])

RerunPage ==
    /\ \E i \in Sessions : CanRerun(i)
    /\ Both({i \in Sessions : CanRerun(i)}, [i \in Sessions |-> Rerun(i)])

Next == OpenPage \/ SelectTheme \/ ClickMap \/ MoveSlider \/ Submit \/ RerunPage

Spec == Init /\ [][Next]_vars

\* ------------------------------------- SpecSteps: one run, step by step
\* One session (session 1, of either script); its script runs one block of
\* statements at a time.
InitSteps ==
    \E sc \in Scripts :
        /\ sess = [i \in Sessions |-> NewSession(sc, i)]
        /\ db = [f \in DbFiles |-> NewDb]

\* An interaction of session i: the rerun request with the widget states.
Begin(i, start) ==
    /\ sess' = [sess EXCEPT ![i] = start]
    /\ UNCHANGED db

\* The run of session i executes its block at `at`.
Take(i) ==
    /\ CanStep(View(i, sess[i]))
    /\ LET Q == Step(i, View(i, sess[i]))
       IN  /\ sess' = [sess EXCEPT ![i] = Q.s]
           /\ db' = [db EXCEPT ![sess[i].dbfile] = Q.d]

BeginOpen(i) == CanOpen(i) /\ Begin(i, Opened(i))
BeginSelect(i) == \E t \in layer_options : CanSelect(i, t) /\ Begin(i, Selected(i, t))
BeginClick(i) == \E p \in Points : CanClick(i) /\ Begin(i, Clicked(i, p))
BeginSlide(i) == \E v \in SliderValues : CanSlide(i, v) /\ Begin(i, Slid(i, v))
BeginSubmit(i) == \E c \in Comments : CanSubmit(i) /\ Begin(i, Submitted(i, c))
BeginRerun(i) == CanRerun(i) /\ Begin(i, Rerun(i))

RunTop(i) == sess[i].pc = "top" /\ Take(i)
RenderMap(i) == sess[i].pc = "map" /\ Take(i)
ReadClick(i) == sess[i].pc = "click" /\ Take(i)
SpatialJoin(i) == sess[i].pc = "sjoin" /\ Take(i)
RenderSidebar(i) == sess[i].pc = "sidebar" /\ Take(i)
WriteRow(i) == sess[i].pc = "write" /\ Take(i)
CommitRow(i) == sess[i].pc = "commit" /\ Take(i)

NextSteps ==
    \/ BeginOpen(1) \/ BeginSelect(1) \/ BeginClick(1)
    \/ BeginSlide(1) \/ BeginSubmit(1) \/ BeginRerun(1)
    \/ RunTop(1) \/ RenderMap(1) \/ ReadClick(1) \/ SpatialJoin(1)
    \/ RenderSidebar(1) \/ WriteRow(1) \/ CommitRow(1)

SpecSteps == InitSteps /\ [][NextSteps]_vars

\* ----------------------------- SpecConc: two sessions, one feedback.db
\* Two sessions of the same script share the database file.  A run is
\* atomic up to its INSERT statement; INSERT and COMMIT of the two sessions
\* interleave.
InitConc ==
    \E sc \in Scripts :
        /\ sess = [i \in Sessions |-> NewSession(sc, 1)]
        /\ db = [f \in DbFiles |-> NewDb]

\* An interaction of session i and its run up to the INSERT statement.
Upto(i, start) ==
    /\ CanStep(View(i, start))
    /\ LET Q == RunToWrite(i, View(i, start))
       IN  /\ sess' = [sess EXCEPT ![i] = Q.s]
           /\ db' = [db EXCEPT ![sess[i].dbfile] = Q.d]

ConcOpen(i) == CanOpen(i) /\ Upto(i, Opened(i))
ConcClick(i) == \E p \in Points : CanClick(i) /\ Upto(i, Clicked(i, p))
ConcSubmit(i) == \E c \in Comments : CanSubmit(i) /\ Upto(i, Submitted(i, c))

NextConc ==
    \E i \in Sessions :
        \/ ConcOpen(i) \/ ConcClick(i) \/ ConcSubmit(i)
        \/ WriteRow(i) \/ CommitRow(i)

SpecConc == InitConc /\ [][NextConc]_vars

\* ================================================================ claims
IsPrefix(a, b) == Len(a) <= Len(b) /\ \A n \in 1..Len(a) : a[n] = b[n]

Last(q) == q[Len(q)]

\* The layer rows whose polygon contains point p.
Containing(p) == {k \in DOMAIN layer_variables : p \in layer_variables[k]["geometry"]}

\* Session i's last clicked point lies in a park.
Resolves(s) == s.last_object_clicked # None /\ Containing(s.last_object_clicked) # {}

\* C1: every persisted park_feedback row has an integer rating r with
\* 1 <= r <= 5.
C1_RatingRange ==
    \A f \in DbFiles : \A n \in 1..Len(db[f].rows) :
        LET r == db[f].rows[n].rating
        IN  r \in Int /\ 1 <= r /\ r <= 5

C1_Witness ==
    \E f \in DbFiles : Len(db[f].rows) > 0 /\ db[f].rows[1].rating = 5

C3_NoParkMessage ==
    \A i \in Sessions :
        (Idle(i) /\ Started(i) /\ sess[i].last_object_clicked # None /\ ~Resolves(sess[i]))
            => (sess[i].warning /\ ~sess[i].details /\ ~sess[i].form)

\* C4: for a click inside a park the sidebar shows details, and they are the
\* selected theme's column values of a polygon that contains the clicked
\* point (of the only one, when one polygon contains it).
C4_ParkDetails ==
    \A i \in Sessions :
        (Idle(i) /\ Started(i)) =>
            /\ Resolves(sess[i]) => sess[i].details
            /\ sess[i].details =>
                /\ sess[i].last_object_clicked # None
                /\ \E k \in Containing(sess[i].last_object_clicked) :
                      \A c \in Range(themes(sess[i].script)[sess[i].selected_layer]) :
                          /\ c \in DOMAIN sess[i].info
                          /\ sess[i].info[c] = layer_variables[k][c]

\* Both pages show the details of a click that only the second park holds.
C4_Witness ==
    \A i \in Sessions :
        /\ sess[i].details
        /\ sess[i].selected_layer = "Environment"
        /\ Containing(sess[i].last_object_clicked) = {1}

\* The (park_name, rating, comment) of every row.
Content(rows) ==
    [n \in 1..Len(rows) |-> <<rows[n].park_name, rows[n].rating, rows[n].comment>>]

\* C5: from the same empty table and under the same user actions, app.py
\* and testapp.py append the same (park_name, rating, comment) rows.
C5_SameRows == Content(db[1].rows) = Content(db[2].rows)

C5_Witness ==
    /\ sess[1].script = "app" /\ sess[2].script = "testapp"
    /\ Len(db[1].rows) > 0 /\ Len(db[2].rows) > 0
    /\ sess[1].success /\ sess[2].success
    /\ sess[1].selected_layer = "Environment"

\* The blocks of one rerun, in the order of the script.
Pos == [top |-> 0, map |-> 1, click |-> 2, sjoin |-> 3, sidebar |-> 4,
        write |-> 5, commit |-> 6]

\* C6: within one rerun the blocks run in the order render map, read click,
\* spatial join, render sidebar, write feedback row; a row is appended in a
\* rerun iff Submit fired in it and its last clicked point resolved to a
\* park, and then exactly one row is appended.
C6_OrderAndWrite ==
    [][LET s == sess[1]
           t == sess'[1]
           rows == db[s.dbfile].rows
           rows2 == db'[s.dbfile].rows
       IN  /\ (s.pc # t.pc) =>
                 \/ s.pc = "idle" /\ t.pc = "top"
                 \/ s.pc # "idle" /\ t.pc = "idle"
                 \/ s.pc # "idle" /\ t.pc # "idle" /\ Pos[t.pc] = Pos[s.pc] + 1
           /\ (rows2 # rows) =>
                 /\ s.pc = "commit" /\ submitted(s) /\ Resolves(s)
                 /\ Len(rows2) = Len(rows) + 1
                 /\ IsPrefix(rows, rows2)
           /\ (s.pc # "idle" /\ t.pc = "idle" /\ submitted(s) /\ Resolves(s)) =>
                 /\ s.pc = "commit"
                 /\ Len(rows2) = Len(rows) + 1]_vars

\* testapp.py's run stands between its INSERT and its COMMIT.
C6_Witness == sess[1].pc = "commit" /\ sess[1].script = "testapp"

\* C7: an appended row holds the NAMN_top5 value of the polygon resolved
\* from the submitting rerun's last clicked point, that rerun's slider value
\* and its form text; the fallback name "Unknown" is never persisted.
C7_RowOfClickedPark ==
    [][\A i \in Sessions :
          LET rows == db[sess[i].dbfile].rows
              rows2 == db'[sess[i].dbfile].rows
              t == sess'[i]
          IN  (Len(rows2) > Len(rows)) =>
                 /\ t.last_object_clicked # None
                 /\ joined(t) # <<>>
                 /\ Last(rows2).park_name =
                        layer_variables[joined(t)[1].row["index_right"]]["NAMN_top5"]
                 /\ Last(rows2).rating = t.feedback
                 /\ Last(rows2).comment = t.comment
                 /\ Last(rows2).park_name # Unknown]_vars

\* A submit for the second park with a moved slider and a typed comment.
C7_Witness ==
    \E i \in Sessions :
        /\ sess[i].success
        /\ Len(db[sess[i].dbfile].rows) > 0
        /\ Last(db[sess[i].dbfile].rows) =
               [id |-> 1, park_name |-> Val("NAMN_top5", 1), rating |-> 5,
                comment |-> "nice"]

\* C8: in a rerun that draws the red highlight, the highlighted polygon is
\* the one the user's most recent park-resolving click (before that rerun)
\* fell within.
C8_HighlightIsClickedPark ==
    [][\A i \in Sessions :
          (sess'[i] # sess[i] /\ sess'[i].highlight # {})
              => sess[i].resolved_click \in sess'[i].highlight]_vars

\* C9: clicked_park_index starts as None, changes only in a rerun whose last
\* clicked point resolves to a park, and that rerun is one a map click
\* caused (not a theme change, a slider move, a submit or a click that
\* resolves to no park), and never returns to None.
C9_ClickedParkIndex ==
    [][LET s == sess[1]
           a == sess[1].clicked_park_index
           b == sess'[1].clicked_park_index
       IN  /\ (a = Absent) => (b \in {Absent, None})
           /\ (a # Absent /\ b # a) =>
                 (s.pc = "sjoin" /\ s.trigger = "click" /\ Resolves(s))
           /\ (a \notin {Absent, None}) => (b \notin {Absent, None})]_vars

\* A park was clicked, then a place outside every park, then the theme
\* was changed.
C9_Witness ==
    /\ Idle(1) /\ sess[1].clicked_park_index \notin {Absent, None}
    /\ sess[1].last_object_clicked # None /\ ~Resolves(sess[1])
    /\ sess[1].selected_layer # "Amenities"

====
